---------------------------- MODULE Spec2Model ----------------------------
(***************************************************************************)
(* Model of fdtd_toroidal.py: the timing sweep run by main()               *)
(* (compute_timing_table -> run_one_omega -> fdtd_step, then write_csv).   *)
(*                                                                         *)
(* Numbers.  The program computes in float64.  Field samples, dt, dx,      *)
(* delta_n and detect_thr are modelled in fixed point, as integers in      *)
(* units of 1/Q, rounded down after every product.  Rotation rates are     *)
(* integers in units of 1/OQ.  sin and exp are evaluated by rational       *)
(* approximations (Bhaskara's formula, and 1/(1+y+y^2/2) for exp(-y)).     *)
(* Arrival times and the columns of the CSV are exact rationals            *)
(* [n |-> .., d |-> ..] or the value NaN; NaN propagates through the       *)
(* arithmetic and compares unequal to everything, as in IEEE 754.          *)
(***************************************************************************)
EXTENDS Integers, Sequences, FiniteSets, TLC

VARIABLES
    omega_vals, detect_thr, circulations, inj_dur, sim_steps, avg_runs,
    pc,
    results, oi, times, run,
    Omega, E, H, arrival_step, laps_completed, t, nxt, retval,
    csv,
    trace, trials

cfg  == <<omega_vals, detect_thr, circulations, inj_dur, sim_steps, avg_runs>>
swp  == <<results, oi, times, run>>
fld  == <<E, H>>
trl  == <<Omega, arrival_step, laps_completed, t, nxt>>
vars == <<cfg, pc, swp, fld, trl, retval, csv, trace, trials>>

\* ---------------------------------------------------------------- bounds
Q         == 100      \* fixed-point resolution of the field values
MaxOmegas == 3        \* longest omega_values list
MaxRuns   == 2        \* largest averaging_runs
MaxLaps   == 2        \* largest circulations
MaxInj    == 1        \* largest injection_duration
MaxSteps  == 4        \* largest simulation_steps
SweepSteps  == 2      \* largest simulation_steps under SpecSweep
SweepOmegas == 2      \* longest omega_values list under SpecSweep

\* ------------------------------------------------- parameters (JSON file)
N           == 4                  \* cells around the ring
OQ          == 10                 \* rotation rates are in units of 1/OQ
dx          == Q                  \* 1.0
dt          == Q \div 2           \* 0.5
delta_n     == Q \div 2           \* 0.5
pulse_pos   == 1
pulse_sigma == 1
eps0        == Q                  \* n_base ** 2 = 1.0

OmegaSet == {0, 5}                              \* 0.0 and 0.5 per step
ThrSet   == {Q \div 2, (Q * 12) \div 5}         \* 0.5 and 2.4

\* np.nan, held like the other float values of the report (see Rat below)
NaN  == [n |-> 0, d |-> 0]
\* Python's None for a step index or a rate (neither is ever -1 here)
None == -1
Cells == 0 .. N - 1

\* ------------------------------------------------------------ arithmetic
\* np.sin(2*pi*a/b) for 0 <= a < b, as a fraction <<num, den>>
SinFrac(a, b) ==
    LET w == IF 2 * a <= b THEN a * (b - 2 * a) ELSE (2 * a - b) * (b - a)
        s == IF 2 * a <= b THEN 1 ELSE -1
    IN  <<s * 32 * w, 5 * b * b - 8 * w>>

\* np.exp(-0.5 * (zn/zd)**2) in units of 1/Q
Gauss(zn, zd) ==
    (Q * 8 * zd * zd * zd * zd)
        \div (8 * zd * zd * zd * zd + 4 * zn * zn * zd * zd + zn * zn * zn * zn)

\* product of two fixed-point numbers
Mul(x, y) == (x * y) \div Q

\* ---------------------------------------------------------- fdtd_step
\* eps[k] = eps0 * (1 + delta_n * sin(2 pi (k + Omega t) / N))
Eps(Om, tt) ==
    [k \in Cells |->
        LET f     == SinFrac((k * OQ + Om * tt) % (N * OQ), N * OQ)
            sinph == (Q * f[1]) \div f[2]
        IN  Mul(eps0, Q + Mul(delta_n, sinph))]

\* dt / (eps[k] * dx)
Coef(eps, k) == (dt * Q * Q) \div (eps[k] * dx)

\* H[1:] = H[1:] + (dt/(eps[:-1]*dx)) * (E[1:] - E[:-1])
\* H[0]  = H[0]  + (dt/(eps[-1]*dx))  * (E[0] - E[-1])
HUpdate(EE, HH, eps) ==
    [i \in Cells |->
        IF i >= 1
        THEN HH[i] + Mul(Coef(eps, i - 1), EE[i] - EE[i - 1])
        ELSE HH[0] + Mul(Coef(eps, N - 1), EE[0] - EE[N - 1])]

\* E[:-1] = E[:-1] + (dt/(eps[:-1]*dx)) * (H[:-1] - H[1:])
\* E[-1]  = E[-1]  + (dt/(eps[-1]*dx))  * (H[-1] - H[0])
EUpdate(EE, HH, eps) ==
    [i \in Cells |->
        IF i <= N - 2
        THEN EE[i] + Mul(Coef(eps, i), HH[i] - HH[i + 1])
        ELSE EE[N - 1] + Mul(Coef(eps, N - 1), HH[N - 1] - HH[0])]

\* fdtd_step with the two updates in the other order: E from the H of
\* before the call, then H from the new E
fdtd_step_EFirst(EE, HH, Om, tt) ==
    LET eps == Eps(Om, tt)
        E1  == EUpdate(EE, HH, eps)
        H1  == HUpdate(E1, HH, eps)
    IN  <<E1, H1>>

\* the pair (E, H) returned by fdtd_step(E, H, Omega, t)
fdtd_step(EE, HH, Om, tt) ==
    LET eps == Eps(Om, tt)
        H1  == HUpdate(EE, HH, eps)
        E1  == EUpdate(EE, H1, eps)
    IN  <<E1, H1>>

\* ------------------------------------------------------- run_one_omega
\* pulse = np.exp(-0.5 * ((np.arange(N) - pulse_pos) / pulse_sigma) ** 2)
Pulse == [k \in Cells |-> Gauss(k - pulse_pos, pulse_sigma)]

Zeros == [k \in Cells |-> 0]

\* np.exp(-0.5 * ((t - inj_dur/2) / (inj_dur/4)) ** 2)
SourceTerm(tt, dur) == Gauss(4 * tt - 2 * dur, dur)

\* -------------------------------------------- float values of the report
RECURSIVE GCD(_, _)
GCD(a, b) == IF b = 0 THEN a ELSE GCD(b, a % b)

Abs(x) == IF x < 0 THEN -x ELSE x

\* the number n/d (d # 0) in lowest terms with a positive denominator
Rat(n, d) ==
    LET g == GCD(Abs(n), Abs(d))
        s == IF d < 0 THEN -1 ELSE 1
    IN  [n |-> (s * n) \div g, d |-> (s * d) \div g]

IsNaN(x) == x.d = 0

\* x - y
Sub(x, y) ==
    IF IsNaN(x) \/ IsNaN(y) THEN NaN
    ELSE Rat(x.n * y.d - y.n * x.d, x.d * y.d)

\* 100 * x / y, y # 0
Pct(x, y) ==
    IF IsNaN(x) \/ IsNaN(y) THEN NaN
    ELSE Rat(100 * x.n * y.d, x.d * y.n)

\* x != 0 (true of NaN)
NonZero(x) == IsNaN(x) \/ x.n # 0

RECURSIVE SumRat(_)
SumRat(s) ==
    IF s = <<>> THEN Rat(0, 1)
    ELSE LET r == SumRat(Tail(s))
         IN  Rat(Head(s).n * r.d + r.n * Head(s).d, Head(s).d * r.d)

\* np.mean(times), times non-empty and free of NaN
Mean(s) == LET r == SumRat(s) IN Rat(r.n, r.d * Len(s))

\* n/d (d > 0) rounded to the nearest integer, ties to even
RoundHalfEven(n, d) ==
    LET q == n \div d
        r == n % d
    IN  IF 2 * r < d THEN q
        ELSE IF 2 * r > d THEN q + 1
        ELSE IF q % 2 = 0 THEN q ELSE q + 1

\* the decimal digits of m >= 0, at least w of them
RECURSIVE Digits(_, _)
Digits(m, w) ==
    IF m < 10 /\ w <= 1 THEN ToString(m)
    ELSE Digits(m \div 10, w - 1) \o ToString(m % 10)

\* the text of m / 10^k with k decimals
Decimal(m, k) ==
    LET p == IF k = 2 THEN 100 ELSE 1000
        a == Abs(m)
    IN  (IF m < 0 THEN "-" ELSE "") \o Digits(a \div p, 1) \o "."
            \o Digits(a % p, k)

\* f"{x:.2f}"
Fmt2(x) == IF IsNaN(x) THEN "nan" ELSE Decimal(RoundHalfEven(100 * x.n, x.d), 2)

\* f"{omega:.3f}"
Fmt3(om) == Decimal(RoundHalfEven(1000 * om, OQ), 3)

\* ------------------------------------------------------------ write_csv
Header == <<"Omega (1/step)", "Arrival Time (dt units)",
            "Delta t vs. Omega=0", "Delta t Fraction (%)">>

\* the difference taken the other way round
Delta_Reversed(tv, t0) == Sub(t0, tv)

\* delta = t - t0
Delta(tv, t0) == Sub(tv, t0)

\* frac = 100 * delta / t0 if t0 != 0 else 0.0
Frac(tv, t0) == IF NonZero(t0) THEN Pct(Delta(tv, t0), t0) ELSE Rat(0, 1)

\* [f"{omega:.3f}", f"{t:.2f}", f"{delta:.2f}", f"{frac:.2f}"]
CsvRow(om, tv, t0) ==
    <<Fmt3(om), Fmt2(tv), Fmt2(Delta(tv, t0)), Fmt2(Frac(tv, t0))>>

\* the rows written for data
CsvFile(data) ==
    IF data # <<>>
    THEN <<Header>> \o [i \in 1 .. Len(data) |->
                            CsvRow(data[i][1], data[i][2], data[1][2])]
    ELSE <<Header>>

\* --------------------------------------------------------------- states
Init ==
    /\ omega_vals \in UNION {[1 .. n -> OmegaSet] : n \in 1 .. MaxOmegas}
    /\ detect_thr \in ThrSet
    /\ circulations \in 1 .. MaxLaps
    /\ inj_dur \in 0 .. MaxInj
    /\ sim_steps \in 1 .. MaxSteps
    /\ avg_runs \in 1 .. MaxRuns
    /\ pc = "omega_loop"
    /\ results = <<>>
    /\ oi = 1
    /\ times = <<>>
    /\ run = 0
    /\ Omega = None
    /\ E = Zeros
    /\ H = Zeros
    /\ arrival_step = None
    /\ laps_completed = 0
    /\ t = None
    /\ nxt = 0
    /\ retval = NaN
    /\ csv = <<>>
    /\ trace = <<>>
    /\ trials = <<>>

\* compute_timing_table: for omega in omega_vals / return results
OmegaLoop ==
    /\ pc = "omega_loop"
    /\ IF oi <= Len(omega_vals)
       THEN /\ times' = <<>>
            /\ run' = 0
            /\ pc' = "run_loop"
       ELSE /\ pc' = "csv"
            /\ UNCHANGED <<times, run>>
    /\ UNCHANGED <<cfg, results, oi, fld, trl, retval, csv, trace, trials>>

\* compute_timing_table: for _ in range(avg_runs)
RunLoop ==
    /\ pc = "run_loop"
    /\ IF run < avg_runs
       THEN /\ run' = run + 1
            /\ pc' = "call"
       ELSE /\ pc' = "agg"
            /\ run' = run
    /\ UNCHANGED <<cfg, results, oi, times, fld, trl, retval, csv, trace, trials>>

\* run_one_omega that allocates H once and keeps it between trials
StartTrial_KeepH ==
    /\ pc = "call"
    /\ Omega' = omega_vals[oi]
    /\ E' = Pulse
    /\ H' = H
    /\ arrival_step' = None
    /\ laps_completed' = 0
    /\ t' = None
    /\ nxt' = 0
    /\ trace' = <<>>
    /\ pc' = "for"
    /\ UNCHANGED <<cfg, swp, retval, csv, trials>>

\* run_one_omega(omega): the locals before the loop
StartTrial ==
    /\ pc = "call"
    /\ Omega' = omega_vals[oi]
    /\ E' = Pulse
    /\ H' = Zeros
    /\ arrival_step' = None
    /\ laps_completed' = 0
    /\ t' = None
    /\ nxt' = 0
    /\ trace' = <<>>
    /\ pc' = "for"
    /\ UNCHANGED <<cfg, swp, retval, csv, trials>>

\* the loop over range(sim_steps - 1)
ForStep_OffByOne ==
    /\ pc = "for"
    /\ IF nxt + 1 < sim_steps
       THEN /\ t' = nxt
            /\ nxt' = nxt + 1
            /\ pc' = "inject"
       ELSE /\ pc' = "ret"
            /\ UNCHANGED <<t, nxt>>
    /\ UNCHANGED <<cfg, swp, fld, Omega, arrival_step, laps_completed,
                   retval, csv, trace, trials>>

\* for t in range(sim_steps)
ForStep ==
    /\ pc = "for"
    /\ IF nxt < sim_steps
       THEN /\ t' = nxt
            /\ nxt' = nxt + 1
            /\ pc' = "inject"
       ELSE /\ pc' = "ret"
            /\ UNCHANGED <<t, nxt>>
    /\ UNCHANGED <<cfg, swp, fld, Omega, arrival_step, laps_completed,
                   retval, csv, trace, trials>>

\* an injection that tests source_on_until alone and so never switches off
Inject_AlwaysOn ==
    /\ pc = "inject"
    /\ IF inj_dur > 0
       THEN E' = [E EXCEPT ![pulse_pos] = @ + SourceTerm(t, inj_dur)]
       ELSE E' = E
    /\ pc' = "fdtd"
    /\ UNCHANGED <<cfg, swp, H, trl, retval, csv, trace, trials>>

\* if t < source_on_until: E[pulse_pos] += source term
Inject ==
    /\ pc = "inject"
    /\ IF t < inj_dur
       THEN E' = [E EXCEPT ![pulse_pos] = @ + SourceTerm(t, inj_dur)]
       ELSE E' = E
    /\ pc' = "fdtd"
    /\ UNCHANGED <<cfg, swp, H, trl, retval, csv, trace, trials>>

\* E, H = fdtd_step(E, H, Omega, t)
FdtdStep ==
    /\ pc = "fdtd"
    /\ E' = fdtd_step(E, H, Omega, t)[1]
    /\ H' = fdtd_step(E, H, Omega, t)[2]
    /\ pc' = "detect"
    /\ UNCHANGED <<cfg, swp, trl, retval, csv, trace, trials>>

\* the detection without its break
Detect_NoBreak ==
    /\ pc = "detect"
    /\ IF E[pulse_pos] > detect_thr /\ arrival_step = None
       THEN /\ laps_completed' = laps_completed + 1
            /\ arrival_step' = IF laps_completed' >= circulations
                               THEN t ELSE arrival_step
       ELSE UNCHANGED <<laps_completed, arrival_step>>
    /\ pc' = "for"
    /\ trace' = Append(trace, [t |-> t, E |-> E, H |-> H,
                               laps |-> laps_completed'])
    /\ UNCHANGED <<cfg, swp, fld, Omega, t, nxt, retval, csv, trials>>

\* the detection at the end of the loop body
Detect ==
    /\ pc = "detect"
    /\ IF E[pulse_pos] > detect_thr /\ arrival_step = None
       THEN /\ laps_completed' = laps_completed + 1
            /\ IF laps_completed' >= circulations
               THEN /\ arrival_step' = t
                    /\ pc' = "ret"
               ELSE /\ arrival_step' = arrival_step
                    /\ pc' = "for"
       ELSE /\ pc' = "for"
            /\ UNCHANGED <<laps_completed, arrival_step>>
    /\ trace' = Append(trace, [t |-> t, E |-> E, H |-> H,
                               laps |-> laps_completed'])
    /\ UNCHANGED <<cfg, swp, fld, Omega, t, nxt, retval, csv, trials>>

\* the value run_one_omega returns
ReturnValue(step) == IF step = None THEN NaN ELSE Rat(step * dt, Q)

\* return of run_one_omega, and the caller's times.append(t)
Return ==
    /\ pc = "ret"
    /\ retval' = ReturnValue(arrival_step)
    /\ times' = IF ~IsNaN(retval') THEN Append(times, retval') ELSE times
    /\ trials' = Append(trials, [oi |-> oi, run |-> run, Omega |-> Omega,
                                 ret |-> retval', trace |-> trace])
    /\ pc' = "run_loop"
    /\ UNCHANGED <<cfg, results, oi, run, fld, trl, csv, trace>>

\* the mean taken over all avg_runs trials instead of the detected ones
TableEntry_DivideByRuns(om, ts) ==
    IF ts # <<>>
    THEN <<om, LET r == SumRat(ts) IN Rat(r.n, r.d * avg_runs)>>
    ELSE <<om, NaN>>

\* the entry appended to results for one rotation rate
TableEntry(om, ts) == IF ts # <<>> THEN <<om, Mean(ts)>> ELSE <<om, NaN>>

\* a table that leaves out the rates without a detection
Aggregate_DropUndetected ==
    /\ pc = "agg"
    /\ results' = IF times # <<>>
                  THEN Append(results, <<omega_vals[oi], Mean(times)>>)
                  ELSE results
    /\ oi' = oi + 1
    /\ pc' = "omega_loop"
    /\ UNCHANGED <<cfg, times, run, fld, trl, retval, csv, trace, trials>>

\* compute_timing_table: results.append(...)
Aggregate ==
    /\ pc = "agg"
    /\ results' = Append(results, TableEntry(omega_vals[oi], times))
    /\ oi' = oi + 1
    /\ pc' = "omega_loop"
    /\ UNCHANGED <<cfg, times, run, fld, trl, retval, csv, trace, trials>>

\* write_csv(data)
WriteCsv ==
    /\ pc = "csv"
    /\ csv' = CsvFile(results)
    /\ pc' = "done"
    /\ UNCHANGED <<cfg, swp, fld, trl, retval, trace, trials>>

Next ==
    \/ OmegaLoop
    \/ RunLoop
    \/ StartTrial
    \/ ForStep
    \/ Inject
    \/ FdtdStep
    \/ Detect
    \/ Return
    \/ Aggregate
    \/ WriteCsv

Spec == Init /\ [][Next]_vars

\* ---------------------------------------------------------------------
\* compute_timing_table and write_csv against every value run_one_omega
\* can return: NaN, or step * dt for a step of range(sim_steps).
StubTrial ==
    /\ pc = "call"
    /\ \E step \in {None} \cup (0 .. sim_steps - 1) : arrival_step' = step
    /\ Omega' = omega_vals[oi]
    /\ trace' = <<>>
    /\ pc' = "ret"
    /\ UNCHANGED <<cfg, swp, fld, laps_completed, t, nxt, retval, csv, trials>>

InitSweep ==
    /\ Init
    /\ omega_vals \in {[i \in 1 .. n |-> 0] : n \in 1 .. SweepOmegas}
    /\ detect_thr = Q \div 2
    /\ circulations = 1
    /\ inj_dur = 0
    /\ sim_steps <= SweepSteps

NextSweep ==
    \/ OmegaLoop
    \/ RunLoop
    \/ StubTrial
    \/ Return
    \/ Aggregate
    \/ WriteCsv

SpecSweep == InitSweep /\ [][NextSweep]_vars

\* Properties
\* ---------------------------------------------------------------------
InLoopBody == pc \in {"for", "inject", "fdtd", "detect"}

Last(sq) == sq[Len(sq)]

\* C1: at the first step t at which laps_completed reaches circulations,
\* arrival_step becomes t and the trial leaves the loop at once: nothing of
\* the loop body runs while arrival_step is set, the last step recorded is
\* step arrival_step, and the value returned is arrival_step * dt.
C1_ArrivalStopsTrial ==
    [][ /\ (pc = "detect" /\ laps_completed < circulations
                /\ laps_completed' >= circulations)
            => (arrival_step' = t /\ pc' = "ret" /\ nxt' = t + 1)
        /\ (arrival_step' # None => ~InLoopBody')
        /\ (pc = "ret" /\ arrival_step # None)
            => /\ Len(trace) = arrival_step + 1
               /\ Last(trace).t = arrival_step
               /\ retval' = Rat(arrival_step * dt, Q)
               /\ pc' = "run_loop" ]_vars

\* a trial has returned the time of an arrival found after the first step
\* and before the step budget ran out
C1_Witness ==
    /\ pc = "run_loop"
    /\ trials # <<>>
    /\ arrival_step >= 1
    /\ arrival_step + 1 < sim_steps
    /\ retval = Rat(arrival_step * dt, Q)
    /\ Last(trials).ret = retval

\* C2: a run of consecutive steps with E[pulse_pos] above detect_thr adds
\* exactly one lap: the counter goes up by one on the step that crosses the
\* threshold and stays until the signal has dropped back.
C2_Above(k) == k >= 1 /\ trace[k].E[pulse_pos] > detect_thr

C2_LapsAt(k) == IF k = 0 THEN 0 ELSE trace[k].laps

C2_OneLapPerCrossing ==
    \A k \in 1 .. Len(trace) :
        C2_LapsAt(k) = C2_LapsAt(k - 1)
                        + (IF C2_Above(k) /\ ~C2_Above(k - 1) THEN 1 ELSE 0)

\* C3: a trial that uses up its sim_steps steps without reaching
\* circulations laps returns NaN after exactly sim_steps steps, and the
\* sweep still runs every trial of every rotation rate.
C3_Exhausted(r) ==
    /\ Len(r.trace) = sim_steps
    /\ Last(r.trace).laps < circulations

C3_UndetectedIsSentinel ==
    /\ \A i \in 1 .. Len(trials) : IsNaN(trials[i].ret) <=> C3_Exhausted(trials[i])
    /\ (pc = "ret" /\ arrival_step = None) => Len(trace) = sim_steps
    /\ pc \in {"csv", "done"} =>
          /\ Len(trials) = Len(omega_vals) * avg_runs
          /\ Len(results) = Len(omega_vals)

\* an undetected trial of several steps was followed by another trial
C3_Witness ==
    /\ pc = "done"
    /\ sim_steps >= 2
    /\ \E i \in 1 .. Len(trials) - 1 :
          /\ IsNaN(trials[i].ret)
          /\ ~IsNaN(trials[i + 1].ret)

\* C4: the table has one (rotation rate, value) pair per entry of
\* omega_vals, in the order of omega_vals, and the CSV is the header
\* followed by one row per pair in that order.
C4_OrderPreserved ==
    /\ pc \in {"csv", "done"} =>
          /\ Len(results) = Len(omega_vals)
          /\ \A i \in 1 .. Len(omega_vals) : results[i][1] = omega_vals[i]
    /\ pc = "done" =>
          /\ Len(csv) = Len(omega_vals) + 1
          /\ csv[1] = Header
          /\ \A i \in 1 .. Len(omega_vals) :
                /\ csv[i + 1][1] = Fmt3(omega_vals[i])
                /\ csv[i + 1][2] = Fmt2(results[i][2])

\* a sweep over different rates, the first and last undetected and one
\* between them detected
C4_Witness ==
    /\ pc = "done"
    /\ Len(omega_vals) = 3
    /\ omega_vals[1] # omega_vals[2]
    /\ IsNaN(results[1][2])
    /\ ~IsNaN(results[2][2])
    /\ IsNaN(results[3][2])
    /\ csv[3][2] # "nan"

\* C5: the value of a rotation rate is the mean of the arrival times of
\* its detected trials, and NaN exactly when none of its avg_runs trials
\* detected an arrival.
C5_Detected(i) ==
    SelectSeq(trials, LAMBDA r : r.oi = i /\ ~IsNaN(r.ret))

C5_All(i) == SelectSeq(trials, LAMBDA r : r.oi = i)

C5_Rets(sq) == [k \in 1 .. Len(sq) |-> sq[k].ret]

C5_MeanOfDetected ==
    pc \in {"csv", "done"} =>
        \A i \in 1 .. Len(omega_vals) :
            LET det == C5_Rets(C5_Detected(i))
                sum == SumRat(det)
                m   == results[i][2]
            IN  /\ Len(C5_All(i)) = avg_runs
                /\ IsNaN(m) <=> det = <<>>
                /\ det # <<>> => m.n * sum.d * Len(det) = sum.n * m.d

\* a rate with one undetected and one detected trial, and a rate with two
\* detected trials of different arrival times
C5_Witness ==
    /\ pc = "done"
    /\ avg_runs = 2
    /\ Len(omega_vals) >= 2
    /\ Len(C5_Detected(1)) = 1
    /\ C5_Detected(1)[1].ret.n > 0
    /\ Len(C5_Detected(2)) = 2
    /\ C5_Detected(2)[1].ret # C5_Detected(2)[2].ret

\* C6: every trial starts from the initial pulse with H = 0, no laps and no
\* arrival; the configuration never changes; trials of the same rotation
\* rate pass through the same states and return the same value.
C6_FreshStart ==
    (pc = "for" /\ nxt = 0) =>
        /\ E = Pulse
        /\ H = Zeros
        /\ laps_completed = 0
        /\ arrival_step = None
        /\ trace = <<>>

C6_SameRun ==
    \A i, j \in 1 .. Len(trials) :
        trials[i].Omega = trials[j].Omega =>
            /\ trials[i].ret = trials[j].ret
            /\ trials[i].trace = trials[j].trace

C6_TrialsDeterministic ==
    /\ [](C6_FreshStart /\ C6_SameRun)
    /\ [][cfg' = cfg]_vars

\* two trials of one rate, at different places of the sweep and with a
\* trial of another rate between them, both of several steps
C6_Witness ==
    \E i, j, k \in 1 .. Len(trials) :
        /\ i < k /\ k < j
        /\ trials[i].oi # trials[j].oi
        /\ trials[i].Omega = trials[j].Omega
        /\ trials[k].Omega # trials[i].Omega
        /\ trials[k].trace # trials[i].trace
        /\ Len(trials[j].trace) >= 3
        /\ ~IsNaN(trials[j].ret)

\* C7: with a numeric first value t0, each row's delta column is the row's
\* value minus t0, its percentage column is 100 * delta / t0 for t0 # 0 and
\* 0.00 for t0 = 0, and the first row shows 0.00 in both.
C7_T0 == results[1][2]

C7_DeltaColumns ==
    (pc = "done" /\ ~IsNaN(C7_T0)) =>
        /\ \A i \in 1 .. Len(results) :
              LET v == results[i][2]
                  d == IF IsNaN(v) THEN NaN
                       ELSE Rat(v.n * C7_T0.d - C7_T0.n * v.d, v.d * C7_T0.d)
              IN  /\ csv[i + 1][3] = Fmt2(d)
                  /\ csv[i + 1][4] =
                        IF C7_T0.n = 0 THEN "0.00"
                        ELSE IF IsNaN(d) THEN "nan"
                        ELSE Fmt2(Rat(100 * d.n * C7_T0.d, d.d * C7_T0.n))
        /\ csv[2][3] = "0.00"
        /\ csv[2][4] = "0.00"

\* a table whose first value is not zero and whose second row differs
\* from it
C7_Witness ==
    /\ pc = "done"
    /\ Len(results) >= 2
    /\ ~IsNaN(C7_T0)
    /\ C7_T0.n # 0
    /\ csv[3][3] \notin {"0.00", "nan"}
    /\ csv[3][4] \notin {"0.00", "nan"}

\* C8: when the first value is NaN or zero, the percentage column of
\* every row is 0.00.
C8_DegenerateBaselineZero ==
    (pc = "done" /\ (IsNaN(C7_T0) \/ C7_T0.n = 0)) =>
        \A i \in 2 .. Len(csv) : csv[i][4] = "0.00"

\* C9: fdtd_step updates every H[i] from the E of before the call (H[0]
\* from E[0] and E[N-1]) and then every E[i] from the updated H (E[N-1]
\* from H[N-1] and H[0]).
C9_HBeforeE ==
    [][ pc = "fdtd" =>
          LET eps == Eps(Omega, t)
          IN  \A i \in Cells :
                /\ H'[i] = H[i] + Mul(Coef(eps, (i - 1) % N),
                                      E[i] - E[(i - 1) % N])
                /\ E'[i] = E[i] + Mul(Coef(eps, i),
                                      H'[i] - H'[(i + 1) % N]) ]_vars

\* a step has been taken from a field whose wrap cells differed and whose
\* H was already non-zero
C9_Witness ==
    /\ pc = "detect"
    /\ Len(trace) >= 1
    /\ Last(trace).E[0] # Last(trace).E[N - 1]
    /\ Last(trace).H[0] # 0
    /\ H[0] # Last(trace).H[0]
    /\ E[N - 1] # Last(trace).E[N - 1]

\* C10: each step injects, then calls fdtd_step, then detects on the E
\* that fdtd_step left; the source term is added to E[pulse_pos] at the
\* steps t < inj_dur and E is left alone by the injection at every other.
C10_StepOrder ==
    [][ /\ pc = "for" => pc' \in {"inject", "ret"}
        /\ pc = "inject" =>
              /\ pc' = "fdtd"
              /\ E' = IF t < inj_dur
                      THEN [E EXCEPT ![pulse_pos] = @ + SourceTerm(t, inj_dur)]
                      ELSE E
        /\ pc = "fdtd" => pc' = "detect"
        /\ pc = "detect" =>
              /\ E' = E
              /\ pc' \in {"for", "ret"}
              /\ laps_completed' # laps_completed <=> E[pulse_pos] > detect_thr ]_vars

\* a step after the end of a non-empty injection window has run
C10_Witness ==
    /\ pc = "detect"
    /\ inj_dur >= 1
    /\ t >= inj_dur
    /\ Len(trace) = t

=============================================================================
